---- MODULE Spec2Model ----
(***************************************************************************)
(* Model of schedule_app_changes/models/panning_slot.py: the planning.slot *)
(* extension that turns a slot's effective/allocated hours into daily      *)
(* account.analytic.line timesheets of at most 8 hours.                    *)
(*                                                                         *)
(* Dates are day ordinals (date + timedelta(days=1) is +1).  Hours are     *)
(* counted in half hours, so that 8.5 h is the integer 17 and the daily    *)
(* cap of 8 h is 16; min and subtraction of such values are exact in the   *)
(* program's floats as well.                                               *)
(***************************************************************************)
EXTENDS Integers, Sequences, FiniteSets, TLC

VARIABLES slots, timesheets, next_id, published, calls, last, loop

vars == <<slots, timesheets, next_id, published, calls, last, loop>>

----------------------------------------------------------------------------
(* Bounds of the model *)

\* request dates are drawn from 0..MaxDate
MaxDate == 2
\* timesheets entered by hand before the first call lie on dates 0..MaxPreDate
MaxPreDate == 1
\* largest hour total of a slot, in half hours (25 h)
MaxHours == 50
\* number of calls made in one behaviour
MaxCalls == 2

----------------------------------------------------------------------------
(* Values *)

HalfHours(h) == 2 * h

\* max_hours_per_day = 8
max_hours_per_day == HalfHours(8)

\* a date string that strptime('%Y-%m-%d') rejects
BadDate == 0 - 1
\* a date local that was never assigned
NoDate == 0 - 2
\* None / False / empty record
None == 0

Dates == 0..MaxDate
DateInputs == Dates \cup {BadDate}

SlotIds == {1, 2, 3, 4}

\* project_id.allow_timesheets
allow_timesheets(project_id) == project_id = 1

Min(a, b) == IF a <= b THEN a ELSE b

RECURSIVE SumHours(_)
SumHours(data) ==
    IF data = <<>> THEN 0 ELSE Head(data).hours + SumHours(Tail(data))

\* ascending enumeration of a finite set of integers (the order in which
\* search() hands the records to the for loop)
RECURSIVE search_order(_)
search_order(S) ==
    IF S = {} THEN <<>>
    ELSE LET m == CHOOSE x \in S : \A y \in S : x <= y
         IN  <<m>> \o search_order(S \ {m})

----------------------------------------------------------------------------
(* create_timesheet_from_effective_hours: the pieces *)

\* slip: the order of the two dates is not checked
invalid_range_unchecked(start_date, end_date) == FALSE

\* lines 27-28: if start_date > end_date: return error
invalid_range(start_date, end_date) == start_date > end_date

\* lines 30-40: the search domain over planning.slot
search_slots(partner_id, specific_slot_id) ==
    { s \in SlotIds :
        /\ slots[s].resource_id = partner_id
        /\ allow_timesheets(slots[s].project_id)
        /\ (slots[s].effective_hours > 0 \/ slots[s].allocated_hours > 0)
        /\ (specific_slot_id # None => s = specific_slot_id) }

\* slip: an empty search result is not reported
no_slots_unchecked(found) == FALSE

\* line 41: if not slots
no_slots(found) == found = {}

\* lines 50-53: both branches compute the same value
total_hours(slot, specific_slot_id) ==
    IF specific_slot_id # None /\ slot.id = specific_slot_id
    THEN (IF slot.effective_hours # 0 /\ slot.effective_hours > 0
          THEN slot.effective_hours ELSE slot.allocated_hours)
    ELSE (IF slot.effective_hours # 0 /\ slot.effective_hours > 0
          THEN slot.effective_hours ELSE slot.allocated_hours)

\* slip: a full day is booked even when less remains
hours_for_day_full_day(remaining_hours) == max_hours_per_day

\* slip: the daily cap is not applied
hours_for_day_uncapped(remaining_hours) == remaining_hours

\* lines 69, 90: hours_for_day = min(remaining_hours, max_hours_per_day)
hours_for_day(remaining_hours) == Min(remaining_hours, max_hours_per_day)

\* slip: the existence check is left out
existing_timesheet_unchecked(store, slot, current_date) == {}

\* slip: the existence check matches the employee against the slot's resource
existing_timesheet_by_resource(store, slot, current_date) ==
    { t \in store :
        /\ t.slot_id = slot.id
        /\ t.employee_id = slot.resource_id
        /\ t.project_id = slot.project_id
        /\ t.date = current_date }

\* lines 72-77, 93-98: timesheet_env.search on (slot, employee, project, date)
existing_timesheet(store, slot, current_date) ==
    { t \in store :
        /\ t.slot_id = slot.id
        /\ t.employee_id = slot.employee_id
        /\ t.project_id = slot.project_id
        /\ t.date = current_date }

\* lines 57, 60: the locals of one slot's distribution; visited is the list
\* of the dates the two loops have looked at
start_acc(total) ==
    [timesheet_data |-> <<>>, remaining_hours |-> total, visited |-> <<>>]

\* slip: a date that already has a timesheet keeps its hours for a later date
visit_day_keeping_hours(store, slot, acc, current_date) ==
    LET h == Min(acc.remaining_hours, max_hours_per_day)
        free == \A t \in store : ~(/\ t.slot_id = slot.id
                                    /\ t.employee_id = slot.employee_id
                                    /\ t.project_id = slot.project_id
                                    /\ t.date = current_date)
    IN  [timesheet_data |->
            IF free THEN Append(acc.timesheet_data, [date |-> current_date, hours |-> h])
            ELSE acc.timesheet_data,
         remaining_hours |-> IF free THEN acc.remaining_hours - h ELSE acc.remaining_hours,
         visited |-> Append(acc.visited, current_date)]

\* lines 68-84 and 90-105: the body shared by the two loops
visit_day(store, slot, acc, current_date) ==
    LET h == hours_for_day(acc.remaining_hours)
    IN  [timesheet_data |->
            IF existing_timesheet(store, slot, current_date) = {}
            THEN Append(acc.timesheet_data,
                        [date |-> current_date, hours |-> h])
            ELSE acc.timesheet_data,
         remaining_hours |-> acc.remaining_hours - h,
         visited |-> Append(acc.visited, current_date)]

\* slip: the in-range loop does not break when no hours remain
range_continues_no_break(day_offset, total_days, acc) == day_offset < total_days

\* lines 63-65: the in-range loop goes on
range_continues(day_offset, total_days, acc) ==
    day_offset < total_days /\ ~(acc.remaining_hours <= 0)

\* line 88: while remaining_hours > 0
spill_continues(acc) == acc.remaining_hours > 0

\* lines 63-84: for day_offset in range(total_days)
RECURSIVE range_loop(_, _, _, _, _, _)
range_loop(store, slot, start_date, total_days, day_offset, acc) ==
    IF range_continues(day_offset, total_days, acc)
    THEN range_loop(store, slot, start_date, total_days, day_offset + 1,
                    visit_day(store, slot, acc, start_date + day_offset))
    ELSE acc

\* slip: the spillover loop steps two days
next_date_skipping(current_date) == current_date + 2

\* line 89: current_date += timedelta(days=1)
next_date(current_date) == current_date + 1

\* lines 87-105: the spillover loop
RECURSIVE spill_loop(_, _, _, _)
spill_loop(store, slot, current_date, acc) ==
    IF spill_continues(acc)
    THEN spill_loop(store, slot, next_date(current_date),
                    visit_day(store, slot, acc, next_date(current_date)))
    ELSE acc

\* lines 57-105: the distribution of one slot against the store
distribute(store, slot, total, start_date, end_date) ==
    spill_loop(store, slot, end_date,
               range_loop(store, slot, start_date,
                          (end_date - start_date) + 1, 0, start_acc(total)))

\* lines 109-117: timesheet_vals
timesheet_vals(slot, data, id) ==
    [id          |-> id,
     employee_id |-> slot.employee_id,
     project_id  |-> slot.project_id,
     partner_id  |-> slot.resource_id,
     date        |-> data.date,
     unit_amount |-> data.hours,
     slot_id     |-> slot.id]

\* lines 107-119: create one timesheet per collected allocation
RECURSIVE create_all(_, _, _, _, _)
create_all(store, nid, slot, data, created) ==
    IF data = <<>>
    THEN [store |-> store, next_id |-> nid, created |-> created]
    ELSE create_all(store \cup {timesheet_vals(slot, Head(data), nid)},
                    nid + 1, slot, Tail(data), Append(created, nid))

\* lines 48-119: for slot in slots
RECURSIVE process_slots(_, _, _, _, _, _, _, _)
process_slots(store, nid, order, start_date, end_date, specific_slot_id, created, trace) ==
    IF order = <<>>
    THEN [store |-> store, next_id |-> nid, created |-> created,
          trace |-> trace]
    ELSE LET slot  == slots[Head(order)]
             total == total_hours(slot, specific_slot_id)
         IN  IF total <= 0
             THEN process_slots(store, nid, Tail(order), start_date,
                                end_date, specific_slot_id, created, trace)
             ELSE LET acc == distribute(store, slot, total, start_date,
                                        end_date)
                      made == create_all(store, nid, slot,
                                         acc.timesheet_data, created)
                  IN  process_slots(made.store, made.next_id, Tail(order),
                                    start_date, end_date, specific_slot_id,
                                    made.created,
                                    trace @@ (slot.id :> acc))

error_result(message) == [status |-> "error", message |-> message]

success_result(created) ==
    [status |-> "success",
     message |-> <<"Created", Len(created), "timesheet entries.">>,
     timesheet_ids |-> created]

NoTrace == [s \in {} |-> None]

\* lines 7-125: the whole call, as the outcome it has on the store and the
\* values it computed on the way
create_timesheet_from_effective_hours(partner_id, start_s, end_s, specific_slot_id) ==
    LET stop(result, sd, ed, searched) ==
            [result |-> result, store |-> timesheets, next_id |-> next_id,
             start_date |-> sd, end_date |-> ed, searched |-> searched,
             found |-> {}, trace |-> NoTrace]
    IN
    IF start_s = BadDate \/ end_s = BadDate
    THEN stop(error_result("Invalid date format. Use YYYY-MM-DD."),
              NoDate, NoDate, FALSE)
    ELSE IF invalid_range(start_s, end_s)
    THEN stop(error_result("Start date cannot be after end date."),
              start_s, end_s, FALSE)
    ELSE LET found == search_slots(partner_id, specific_slot_id) IN
         IF no_slots(found)
         THEN stop(error_result("No planning slots found with effective or allocated hours for this customer."),
                   start_s, end_s, TRUE)
         ELSE LET done == process_slots(timesheets, next_id,
                                        search_order(found), start_s, end_s,
                                        specific_slot_id, <<>>, NoTrace)
              IN  [result |-> success_result(done.created),
                   store |-> done.store, next_id |-> done.next_id,
                   start_date |-> start_s, end_date |-> end_s,
                   searched |-> TRUE, found |-> found, trace |-> done.trace]

----------------------------------------------------------------------------
(* The records the program works on *)

PartnerIds == {1, 2}
SpecificIds == {None, 1, 3}
BaseResults == {"published", "notified"}

\* <<effective_hours, allocated_hours>> of slot 1: nothing planned, 8 h
\* planned, 8.5 h worked against 4 h planned, 20 h planned, MaxHours planned
SlotHours == { <<0, 0>>, <<0, HalfHours(8)>>, <<HalfHours(8) + 1, HalfHours(4)>>, <<0, HalfHours(20)>>, <<0, MaxHours>> }

\* planning.slot: slots 1 and 2 belong to resource 1 on a project that takes
\* timesheets, slot 3 to resource 2 on a project that takes none, slot 4 has
\* no resource
SlotTable(hours) ==
    [s \in SlotIds |->
        [id |-> s,
         resource_id |-> CASE s = 1 -> 1 [] s = 2 -> 1 [] s = 3 -> 2 [] OTHER -> None,
         employee_id |-> s,
         project_id |-> IF s = 3 THEN 2 ELSE 1,
         effective_hours |-> IF s = 1 THEN hours[1] ELSE 0,
         allocated_hours |-> IF s = 1 THEN hours[2] ELSE HalfHours(8) * (IF s = 2 THEN 2 ELSE 1),
         start_datetime |-> IF s = 2 THEN 1 ELSE 0,
         end_datetime |-> 1]]

\* account.analytic.line before the first call: one hand-made hour for slot 1
\* on each date of pre, and one line of slot 2 booked on another employee
InitialTimesheets(table, pre) ==
    { [id |-> 1 + d, employee_id |-> table[1].employee_id, project_id |-> table[1].project_id,
       partner_id |-> table[1].resource_id, date |-> d, unit_amount |-> HalfHours(1), slot_id |-> 1] : d \in pre }
    \cup
    { [id |-> 2 + MaxPreDate, employee_id |-> 9, project_id |-> table[2].project_id,
       partner_id |-> table[2].resource_id, date |-> 1, unit_amount |-> HalfHours(1), slot_id |-> 2] }

NoCall ==
    [op |-> "none", self |-> None, base_res |-> "none", res |-> "none",
     start_date |-> NoDate, end_date |-> NoDate, searched |-> FALSE,
     found |-> {}, trace |-> NoTrace, pre |-> {},
     result |-> [status |-> "none"], ok_args |-> <<>>, repeat |-> FALSE]

Idle == [pc |-> "idle"]

InitStore ==
    /\ \E hours \in SlotHours : slots = SlotTable(hours)
    /\ \E pre \in SUBSET (0..MaxPreDate) : timesheets = InitialTimesheets(slots, pre)
    /\ next_id = 3 + MaxPreDate
    /\ published = {}
    /\ calls = 0
    /\ last = NoCall

Init == InitStore /\ loop = Idle

----------------------------------------------------------------------------
(* The operations *)

\* what a call leaves behind: the store, and the record of what it computed
Record(op, self, base_res, res, args, out) ==
    /\ timesheets' = out.store
    /\ next_id' = out.next_id
    /\ last' = [op |-> op, self |-> self, base_res |-> base_res, res |-> res,
                start_date |-> out.start_date, end_date |-> out.end_date,
                searched |-> out.searched, found |-> out.found,
                trace |-> out.trace, pre |-> timesheets, result |-> out.result,
                ok_args |-> IF out.result.status = "success" THEN args ELSE <<>>,
                repeat |-> (last.ok_args = args)]

\* lines 127-136: action_generate_timesheets hands its arguments on and
\* returns the result
action_generate_timesheets(partner_id, start_date, end_date, specific_slot_id) ==
    create_timesheet_from_effective_hours(partner_id, start_date, end_date, specific_slot_id)

Generate(partner_id, start_date, end_date, specific_slot_id) ==
    /\ calls < MaxCalls
    /\ calls' = calls + 1
    /\ Record("generate", None, "none", "none",
              <<partner_id, start_date, end_date, specific_slot_id>>,
              action_generate_timesheets(partner_id, start_date, end_date, specific_slot_id))
    /\ UNCHANGED <<slots, published, loop>>

\* line 140: if self.resource_id
has_resource(slot) == slot.resource_id # None

\* slip: the slot's id is not handed on
publish_scope_all(slot) == None

\* line 151: specific_slot_id=self.id
publish_scope(slot) == slot.id

\* line 153: return res
publish_return(res, generated) == res

\* lines 138-153: action_publish; base_res is what super().action_publish()
\* returns after marking the slot published
Publish(s, base_res) ==
    /\ calls < MaxCalls
    /\ calls' = calls + 1
    /\ published' = published \cup {s}
    /\ IF has_resource(slots[s])
       THEN LET args == <<slots[s].resource_id, slots[s].start_datetime, slots[s].end_datetime, publish_scope(slots[s])>>
                out == action_generate_timesheets(args[1], args[2], args[3], args[4])
            IN  Record("publish", s, base_res, publish_return(base_res, out.result), args, out)
       ELSE /\ last' = [NoCall EXCEPT !.op = "publish", !.self = s, !.base_res = base_res,
                                      !.res = publish_return(base_res, [status |-> "none"]), !.pre = timesheets]
            /\ UNCHANGED <<timesheets, next_id>>
    /\ UNCHANGED <<slots, loop>>

Next ==
    \/ \E partner_id \in PartnerIds, start_date \in DateInputs, end_date \in DateInputs, specific_slot_id \in SpecificIds :
          Generate(partner_id, start_date, end_date, specific_slot_id)
    \/ \E s \in SlotIds, base_res \in BaseResults : Publish(s, base_res)

Spec == Init /\ [][Next]_vars

----------------------------------------------------------------------------
(* The distribution of one slot, one loop iteration at a time (lines 57-119) *)

LoopInit ==
    /\ InitStore
    /\ \E s \in SlotIds, start_date \in Dates, end_date \in Dates :
          /\ ~invalid_range(start_date, end_date)
          /\ s \in search_slots(slots[s].resource_id, None)
          /\ total_hours(slots[s], None) > 0
          /\ loop = [pc |-> "range", slot |-> s, start_date |-> start_date, end_date |-> end_date,
                     total_days |-> (end_date - start_date) + 1, day_offset |-> 0,
                     current_date |-> NoDate, acc |-> start_acc(total_hours(slots[s], None))]

\* lines 63-84: one iteration of the in-range loop
RangeStep ==
    /\ loop.pc = "range"
    /\ range_continues(loop.day_offset, loop.total_days, loop.acc)
    /\ loop' = [loop EXCEPT !.acc = visit_day(timesheets, slots[loop.slot], loop.acc, loop.start_date + loop.day_offset),
                            !.day_offset = loop.day_offset + 1]
    /\ UNCHANGED <<slots, timesheets, next_id, published, calls, last>>

\* lines 64-65, 87: the in-range loop ends; current_date = end_date
RangeExit ==
    /\ loop.pc = "range"
    /\ ~range_continues(loop.day_offset, loop.total_days, loop.acc)
    /\ loop' = [loop EXCEPT !.pc = "spill", !.current_date = loop.end_date]
    /\ UNCHANGED <<slots, timesheets, next_id, published, calls, last>>

\* lines 88-105: one iteration of the spillover loop
SpillStep ==
    /\ loop.pc = "spill"
    /\ spill_continues(loop.acc)
    /\ loop' = [loop EXCEPT !.current_date = next_date(loop.current_date),
                            !.acc = visit_day(timesheets, slots[loop.slot], loop.acc, next_date(loop.current_date))]
    /\ UNCHANGED <<slots, timesheets, next_id, published, calls, last>>

\* line 88: the spillover loop ends
SpillExit ==
    /\ loop.pc = "spill"
    /\ ~spill_continues(loop.acc)
    /\ loop' = [loop EXCEPT !.pc = "create"]
    /\ UNCHANGED <<slots, timesheets, next_id, published, calls, last>>

\* lines 107-119: the collected allocations become timesheets
CreateStep ==
    /\ loop.pc = "create"
    /\ LET made == create_all(timesheets, next_id, slots[loop.slot], loop.acc.timesheet_data, <<>>)
       IN  /\ timesheets' = made.store
           /\ next_id' = made.next_id
           /\ last' = [last EXCEPT !.pre = timesheets]
    /\ loop' = [loop EXCEPT !.pc = "done"]
    /\ UNCHANGED <<slots, published, calls>>

LoopNext == RangeStep \/ RangeExit \/ SpillStep \/ SpillExit \/ CreateStep

\* the call runs to its end: nothing suspends the loops
LoopSpec == LoopInit /\ [][LoopNext]_vars /\ WF_vars(LoopNext)

----------------------------------------------------------------------------
(* Vocabulary of the properties *)

EightHours == HalfHours(8)

\* the hours a slot carries: its effective hours when positive, else its
\* allocated hours
PlannedHours(slot) ==
    IF slot.effective_hours > 0 THEN slot.effective_hours ELSE slot.allocated_hours

\* number of days needed for total at eight hours a day
DaysNeeded(total) == (total + EightHours - 1) \div EightHours

\* store holds a timesheet with the key (slot, employee, project, date)
HasKey(store, slot, d) ==
    \E t \in store : /\ t.slot_id = slot.id
                     /\ t.employee_id = slot.employee_id
                     /\ t.project_id = slot.project_id
                     /\ t.date = d

\* eight hours a day from start on, the rest on the last day
FullPlan(total, start) ==
    [i \in 1..DaysNeeded(total) |->
        [date |-> start + i - 1,
         hours |-> IF i < DaysNeeded(total) THEN EightHours
                   ELSE total - EightHours * (DaysNeeded(total) - 1)]]

RECURSIVE SumAmounts(_)
SumAmounts(S) ==
    IF S = {} THEN 0
    ELSE LET t == CHOOSE x \in S : TRUE IN t.unit_amount + SumAmounts(S \ {t})

\* the slots the last call distributed, what it collected for each, and the
\* timesheets it created
Distributed == DOMAIN last.trace
Collected(s) == last.trace[s].timesheet_data
Visited(s) == last.trace[s].visited
Created == timesheets \ last.pre
CreatedFor(s) == { t \in Created : t.slot_id = s }
Range(seq) == { seq[i] : i \in DOMAIN seq }

\* no date the loops visited for slot s had a timesheet before the call
NothingPreExisting(s) == \A d \in Range(Visited(s)) : ~HasKey(last.pre, slots[s], d)

\* the last call got past the parsing of its two dates
Parsed == last.start_date # NoDate /\ last.end_date # NoDate

DaysInRange == (last.end_date - last.start_date) + 1

----------------------------------------------------------------------------
(* The properties *)

\* C1: when no visited date had a timesheet before the call, the hours
\* collected for a slot (in range and spilled over), and the hours of the
\* timesheets created for it, add up to the slot's total hours.
C1_SumEqualsTotal ==
    \A s \in Distributed :
        NothingPreExisting(s) =>
            /\ SumHours(Collected(s)) = PlannedHours(slots[s])
            /\ SumAmounts(CreatedFor(s)) = PlannedHours(slots[s])

\* a call that spread MaxHours over the range and past it, nothing pre-existing
C1_Witness ==
    \E s \in Distributed :
        /\ NothingPreExisting(s)
        /\ PlannedHours(slots[s]) = MaxHours
        /\ PlannedHours(slots[s]) > EightHours * DaysInRange
        /\ Len(Collected(s)) = DaysNeeded(MaxHours)

\* C2: every collected allocation and every created timesheet carries more
\* than 0 and at most 8 hours, whatever the total, the range and the
\* timesheets that existed before.
C2_HoursWithinCap ==
    /\ \A s \in Distributed : \A i \in DOMAIN Collected(s) :
          Collected(s)[i].hours > 0 /\ Collected(s)[i].hours <= EightHours
    /\ \A t \in Created : t.unit_amount > 0 /\ t.unit_amount <= EightHours

\* a full day collected by the spillover loop while other dates pre-existed
C2_Witness ==
    \E s \in Distributed :
        /\ ~NothingPreExisting(s)
        /\ \E i \in DOMAIN Collected(s) :
              Collected(s)[i].date > last.end_date /\ Collected(s)[i].hours = EightHours
        /\ \E t \in CreatedFor(s) : t.date > last.end_date /\ t.unit_amount = EightHours

\* C3: with nothing pre-existing the allocations are, in order, eight hours
\* on each of start_date, start_date+1, ... and the rest on the last of the
\* ceil(total/8) days; dates after end_date occur exactly when the total
\* exceeds eight hours times the days of the range, and begin at end_date+1.
C3_ConsecutiveFullDays ==
    \A s \in Distributed :
        NothingPreExisting(s) =>
            /\ Collected(s) = FullPlan(PlannedHours(slots[s]), last.start_date)
            /\ (\E i \in DOMAIN Collected(s) : Collected(s)[i].date > last.end_date)
                  <=> PlannedHours(slots[s]) > EightHours * DaysInRange
            /\ \A i \in DOMAIN Collected(s) :
                  Collected(s)[i].date > last.end_date + 1 =>
                      i > 1 /\ Collected(s)[i - 1].date = Collected(s)[i].date - 1

\* 20 hours over [0, 1]: (0, 8), (1, 8), (2, 4)
C3_Witness ==
    \E s \in Distributed :
        /\ NothingPreExisting(s)
        /\ PlannedHours(slots[s]) = HalfHours(20)
        /\ last.start_date = 0 /\ last.end_date = 1
        /\ Collected(s) = << [date |-> 0, hours |-> HalfHours(8)],
                             [date |-> 1, hours |-> HalfHours(8)],
                             [date |-> 2, hours |-> HalfHours(4)] >>

\* C4: a date whose key already has a timesheet yields no allocation and
\* still uses up its share: the allocations are those of the case without
\* pre-existing timesheets, less the pre-existing dates, hours unchanged.
C4_ExistingDatesConsume ==
    \A s \in Distributed :
        LET free(a) == ~HasKey(last.pre, slots[s], a.date)
        IN  Collected(s) = SelectSeq(FullPlan(PlannedHours(slots[s]), last.start_date), free)

\* 8 hours over [D, D] with a timesheet on D: nothing collected, nothing
\* created, nothing on D+1
C4_Witness ==
    \E s \in Distributed :
        /\ PlannedHours(slots[s]) = EightHours
        /\ last.start_date = last.end_date
        /\ HasKey(last.pre, slots[s], last.start_date)
        /\ Collected(s) = <<>>
        /\ ~HasKey(timesheets, slots[s], last.start_date + 1)
        /\ last.found = {s}
        /\ Created = {}

\* C5: start_date after end_date gives an error result without
\* timesheet_ids; no slot is searched, nothing is distributed and the store
\* is as before.
C5_StartAfterEndRejected ==
    (Parsed /\ last.start_date > last.end_date) =>
        /\ last.result.status = "error"
        /\ "timesheet_ids" \notin DOMAIN last.result
        /\ ~last.searched
        /\ Distributed = {}
        /\ timesheets = last.pre

\* a rejected call made while the store held timesheets of an earlier call
C5_Witness ==
    /\ Parsed /\ last.start_date > last.end_date
    /\ last.result.message = "Start date cannot be after end date."
    /\ \E t \in timesheets : t.id >= 3 + MaxPreDate

\* C6: for parsed dates in order the result is an error exactly when the
\* search found no slot, and then nothing is created; otherwise it is a
\* success whose timesheet_ids are exactly the timesheets created, possibly
\* none.
C6_ErrorIffNoSlots ==
    (Parsed /\ last.start_date <= last.end_date) =>
        /\ last.result.status \in {"error", "success"}
        /\ last.result.status = "error" <=> last.found = {}
        /\ last.result.status = "error" => timesheets = last.pre
        /\ last.result.status = "success" =>
              /\ last.pre \subseteq timesheets
              /\ Range(last.result.timesheet_ids) = { t.id : t \in Created }
              /\ Len(last.result.timesheet_ids) = Cardinality(Created)

\* a success that created nothing because every visited date pre-existed
C6_Witness ==
    /\ Parsed /\ last.start_date <= last.end_date
    /\ last.result.status = "success"
    /\ last.result.timesheet_ids = <<>>
    /\ \E s \in Distributed : Visited(s) # <<>>

\* an error for want of slots
C6_WitnessNoSlots ==
    /\ Parsed /\ last.start_date <= last.end_date
    /\ last.result.status = "error"
    /\ last.searched

\* C7: publishing a slot with a resource generates for that slot alone over
\* its own dates: what is created references the slot, the timesheets of
\* the other slots stay, a slot without resource creates nothing, and the
\* base result is returned.
C7_PublishScopedToSlot ==
    last.op = "publish" =>
        /\ last.self \in published
        /\ \A t \in Created : t.slot_id = last.self
        /\ { t \in timesheets : t.slot_id # last.self } = { t \in last.pre : t.slot_id # last.self }
        /\ last.pre \subseteq timesheets
        /\ slots[last.self].resource_id = None => (Created = {} /\ ~last.searched)
        /\ slots[last.self].resource_id # None =>
              /\ last.start_date = slots[last.self].start_datetime
              /\ last.end_date = slots[last.self].end_datetime
              /\ last.found \subseteq {last.self}
        /\ last.res = last.base_res

\* slot 1 published and given timesheets while slot 2 of the same resource
\* already had its own
C7_Witness ==
    /\ last.op = "publish"
    /\ last.self = 1
    /\ Created # {}
    /\ \E t \in last.pre : t.slot_id = 2 /\ t.employee_id = slots[2].employee_id
    /\ slots[2].resource_id = slots[1].resource_id

\* the dates the loops have visited inside the range
VisitedInRange == { i \in DOMAIN loop.acc.visited : loop.acc.visited[i] <= loop.end_date }

LoopOver == loop.pc \in {"create", "done"}

\* C8: the distribution of a slot ends, whatever timesheets exist: each
\* visited date takes min(remaining, 8) off the remaining hours, so the two
\* loops visit ceil(total/8) dates, at most the days of the range in the
\* first loop, and leave no hours.
C8_Terminates ==
    /\ <>(loop.pc = "done")
    /\ [](LoopOver =>
            /\ Len(loop.acc.visited) = DaysNeeded(PlannedHours(slots[loop.slot]))
            /\ Cardinality(VisitedInRange) <= loop.total_days
            /\ loop.acc.remaining_hours = 0)

\* a distribution that ended although every date it visited had a timesheet
C8_Witness ==
    /\ loop.pc = "done"
    /\ Len(loop.acc.visited) >= 2
    /\ \A d \in Range(loop.acc.visited) : HasKey(timesheets, slots[loop.slot], d)
    /\ loop.acc.timesheet_data = <<>>

\* C9: a call repeated with the arguments of the successful call before it
\* succeeds, lists no timesheet and leaves the store as it was.
C9_Idempotent ==
    last.repeat =>
        /\ last.result.status = "success"
        /\ last.result.timesheet_ids = <<>>
        /\ timesheets = last.pre

\* the repeated call found the timesheets of the first call in its way
C9_Witness ==
    /\ last.repeat
    /\ \E s \in Distributed : \E d \in Range(Visited(s)) :
          \E t \in last.pre : t.id >= 3 + MaxPreDate /\ t.slot_id = s /\ t.date = d

\* C10: the store never holds two timesheets with one key.
C10_OneTimesheetPerKey ==
    \A t1, t2 \in timesheets :
        (/\ t1.slot_id = t2.slot_id
         /\ t1.employee_id = t2.employee_id
         /\ t1.project_id = t2.project_id
         /\ t1.date = t2.date) => t1 = t2

\* a call over two slots that created timesheets around pre-existing ones
C10_Witness ==
    /\ Cardinality(Distributed) = 2
    /\ \A s \in Distributed : CreatedFor(s) # {} /\ ~NothingPreExisting(s)

====
